---- MODULE Spec2Model ----
(***************************************************************************)
(* Model of the GameSession Durable Object of wordgames                    *)
(* (src/unnamed/part_000, lines 235-359): one session, its player map, its *)
(* gameState, the accepted WebSockets with their serialized attachments,   *)
(* and the messages each handler sends.                                    *)
(*                                                                         *)
(* Every handler of the class is synchronous (no await inside), and a      *)
(* Durable Object runs one event at a time, so each handler is one atomic  *)
(* action.                                                                 *)
(***************************************************************************)
EXTENDS Integers, Sequences, FiniteSets, TLC

\* ------------------------------------------------------------------ bounds

\* Number of successful admissions (crypto.randomUUID() calls) explored.
MaxAdmits == 3

\* Number of sockets that may be half-closed (closed by the server after an
\* error, peer not yet closed) at the same time.
MaxStale == 1

\* ------------------------------------------------------------- JS values

\* JavaScript null and undefined, kept apart from every string a client sends.
Null == "<null>"
Undefined == "<undefined>"

\* data.content of a submit message: empty, whitespace-only, text. A message
\* without content (undefined) is falsy like "" and takes the same path.
Contents == {"", " ", "hi"}

\* JavaScript truthiness of a submission (null, undefined and "" are falsy;
\* a whitespace-only string is truthy).
Truthy(v) == v \notin {Null, Undefined, ""}

\* ----------------------------------------------------------------- state

VARIABLES
  players,      \* this.players: Map in insertion order, as a sequence of
                \*   [id, role, submission]
  gameState,    \* this.gameState
  sockets,      \* accepted server WebSockets by playerId:
                \*   [status, attachment |-> [playerId, role, submission]]
  nextId,       \* next fresh playerId (crypto.randomUUID never repeats)
  sent,         \* the send() calls of the last handler that did not throw,
                \*   in order: <<[to |-> id, msg |-> message]>>
  lastOp,       \* the last handler run and how it ended
  revealCount   \* number of reveal broadcasts so far

vars == <<players, gameState, sockets, nextId, sent, lastOp, revealCount>>

\* ------------------------------------------------------------ Map helpers

\* Map.prototype.has
MapHas(m, k) == \E i \in 1..Len(m) : m[i].id = k

\* Map.prototype.set: an existing key keeps its position, a new key is
\* appended.
MapSet(m, k, role, submission) ==
  LET e == [id |-> k, role |-> role, submission |-> submission]
  IN IF MapHas(m, k)
       THEN [i \in 1..Len(m) |-> IF m[i].id = k THEN e ELSE m[i]]
       ELSE Append(m, e)

\* Map.prototype.delete
MapDelete(m, k) == SelectSeq(m, LAMBDA e : e.id # k)

\* Array.prototype.find on [...players.values()]: index of the first entry
\* with the role, 0 when find returns undefined.
FindRole(m, role) ==
  IF \E i \in 1..Len(m) : m[i].role = role
    THEN CHOOSE i \in 1..Len(m) :
           /\ m[i].role = role
           /\ \A j \in 1..(i - 1) : m[j].role # role
    ELSE 0

\* allPlayers.every(p => p.submission)
AllSubmitted(m) == \A i \in 1..Len(m) : Truthy(m[i].submission)

\* --------------------------------------------------------------- sockets

\* A socket is "open" until one of its close/error handlers calls ws.close();
\*   "closing": webSocketError called ws.close(), the peer has not closed yet,
\*              so its frames already in flight and its close can still arrive;
\*   "closed":  the close handshake is complete, no event follows.
SocketStatus == {"open", "closing", "closed"}

\* ws.send() throws once close() was called on ws.
SendThrows(ws) == sockets[ws].status # "open"

\* ws.serializeAttachment(value)
serializeAttachment(socks, ws, value) == [socks EXCEPT ![ws].attachment = value]

\* ws.close(): once the handshake is complete ("closed") the runtime drops the
\* socket together with its attachment.
close(socks, ws, status) ==
  IF status = "closed"
    THEN [socks EXCEPT ![ws] = [status |-> "closed", attachment |-> Null]]
    ELSE [socks EXCEPT ![ws].status = status]

\* this.ctx.getWebSockets(): accepted sockets that are not disconnected, in
\* acceptance order; it can still list a socket after ws.close().
RECURSIVE SocketsFrom(_, _)
SocketsFrom(i, socks) ==
  IF i > Len(socks) THEN <<>>
  ELSE (IF socks[i].status # "closed" THEN <<i>> ELSE <<>>)
       \o SocketsFrom(i + 1, socks)

getWebSockets(socks) == SocketsFrom(1, socks)

\* broadcast(message): ws.send(msg) for every ws of getWebSockets(); a send
\* that throws (close() was already called on ws) is caught and skipped.
RECURSIVE BroadcastTo(_, _, _)
BroadcastTo(list, socks, msg) ==
  IF list = <<>> THEN <<>>
  ELSE (IF socks[Head(list)].status = "open"
          THEN <<[to |-> Head(list), msg |-> msg]>> ELSE <<>>)
       \o BroadcastTo(Tail(list), socks, msg)

broadcast(socks, msg) == BroadcastTo(getWebSockets(socks), socks, msg)

\* ---------------------------------------------------------------- messages

JoinedMsg(id, role, count, gs) ==
  [type |-> "joined", playerId |-> id, role |-> role,
   playerCount |-> count, gameState |-> gs]

\* (variant: the count taken before the map was updated)
StateMsgStaleCount(count, gs) ==
  [type |-> "state", playerCount |-> count - 1, gameState |-> gs]

StateMsg(count, gs) == [type |-> "state", playerCount |-> count, gameState |-> gs]

SubmittedMsg == [type |-> "submitted"]

RevealMsg(q, a) == [type |-> "reveal", question |-> q, answer |-> a]

\* ------------------------------------------------------------------- Init

\* constructor: empty Map, gameState "waiting"; no socket accepted yet.
Init ==
  /\ players = <<>>
  /\ gameState = "waiting"
  /\ sockets = << >>
  /\ nextId = 1
  /\ sent = <<>>
  /\ lastOp = [op |-> "constructor", ws |-> 0, content |-> Undefined, result |-> "ok"]
  /\ revealCount = 0

\* ------------------------------------------------------------------ fetch

\* (variant: the size tested after the insertion, so against 1)
AssignRoleSizeOne(m) == IF Len(m) = 1 THEN "question" ELSE "answer"

\* role = this.players.size === 0 ? "question" : "answer"
AssignRole(m) == IF Len(m) = 0 THEN "question" ELSE "answer"

\* if (this.players.size === 2) this.gameState = "playing"
StateAfterAdmit(m, gs) == IF Len(m) = 2 THEN "playing" ELSE gs

\* fetch, request without "Upgrade: websocket": 400, nothing changes.
FetchNotWebSocket ==
  /\ lastOp' = [op |-> "fetch", ws |-> 0, content |-> Undefined, result |-> "400"]
  /\ sent' = <<>>
  /\ UNCHANGED <<players, gameState, sockets, nextId, revealCount>>

\* fetch, players.size >= 2: 403 "Game is full", nothing changes.
FetchFull ==
  /\ Len(players) >= 2
  /\ lastOp' = [op |-> "fetch", ws |-> 0, content |-> Undefined, result |-> "403"]
  /\ sent' = <<>>
  /\ UNCHANGED <<players, gameState, sockets, nextId, revealCount>>

\* fetch, admission: accept the socket, pick id and role, attach, add to the
\* map, maybe start playing, send "joined" to the new socket, broadcast "state".
FetchAdmit ==
  /\ Len(players) < 2
  /\ nextId <= MaxAdmits
  /\ LET playerId == nextId
         role == AssignRole(players)
         socks == Append(sockets,
                    [status |-> "open",
                     attachment |-> [playerId |-> playerId, role |-> role,
                                     submission |-> Null]])
         m == MapSet(players, playerId, role, Null)
         gs == StateAfterAdmit(m, gameState)
     IN /\ sockets' = socks
        /\ players' = m
        /\ gameState' = gs
        /\ nextId' = nextId + 1
        /\ sent' = <<[to |-> playerId, msg |-> JoinedMsg(playerId, role, Len(m), gs)]>>
                   \o broadcast(socks, StateMsg(Len(m), gs))
        /\ lastOp' = [op |-> "fetch", ws |-> playerId, content |-> Undefined,
                      result |-> "101"]
        /\ UNCHANGED revealCount

\* ------------------------------------------------------- webSocketMessage

\* (variant: some() instead of every())
RevealConditionAny(m) ==
  Len(m) = 2 /\ \E i \in 1..Len(m) : Truthy(m[i].submission)

\* allPlayers.length === 2 && allPlayers.every(p => p.submission)
RevealCondition(m) == Len(m) = 2 /\ AllSubmitted(m)

\* (variant: the two fields filled the other way round)
RevealPayloadSwapped(m) ==
  RevealMsg(m[FindRole(m, "answer")].submission,
            m[FindRole(m, "question")].submission)

\* { type: "reveal", question: question.submission, answer: answer.submission }
\* with question/answer found by role (both lookups succeeded).
RevealPayload(m) ==
  RevealMsg(m[FindRole(m, "question")].submission,
            m[FindRole(m, "answer")].submission)

\* reading .submission of a lookup that returned undefined throws TypeError.
LookupThrows(m) == FindRole(m, "question") = 0 \/ FindRole(m, "answer") = 0

\* if (this.gameState !== "playing") return;
SubmitAllowed(gs) == gs = "playing"

\* webSocketMessage with a type the switch has no case for: nothing happens.
MessageOther(ws) ==
  /\ ws \in 1..Len(sockets)
  /\ sockets[ws].status # "closed"
  /\ lastOp' = [op |-> "message", ws |-> ws, content |-> Undefined,
                result |-> "ignored"]
  /\ sent' = <<>>
  /\ UNCHANGED <<players, gameState, sockets, nextId, revealCount>>

\* webSocketMessage {type: "submit", content} -> handleSubmit(ws, attachment,
\* content). The handler runs to its end or to the first uncaught exception;
\* what it wrote before the exception stays written.
handleSubmit(ws, content) ==
  /\ ws \in 1..Len(sockets)
  /\ sockets[ws].status # "closed"
  /\ UNCHANGED nextId
  /\ IF ~SubmitAllowed(gameState)
       THEN /\ lastOp' = [op |-> "submit", ws |-> ws, content |-> content,
                          result |-> "ignored"]
            /\ sent' = <<>>
            /\ UNCHANGED <<players, gameState, sockets, revealCount>>
       ELSE LET att == [sockets[ws].attachment EXCEPT !.submission = content]
                m == MapSet(players, att.playerId, att.role, content)
                ack == <<[to |-> ws, msg |-> SubmittedMsg]>>
            IN /\ sockets' = serializeAttachment(sockets, ws, att)
               /\ players' = m
               /\ IF SendThrows(ws)
                    THEN \* ws.send({type: "submitted"}) throws, uncaught
                         /\ sent' = <<>>
                         /\ lastOp' = [op |-> "submit", ws |-> ws, content |-> content,
                                       result |-> "send threw"]
                         /\ UNCHANGED <<gameState, revealCount>>
                    ELSE IF ~RevealCondition(m)
                    THEN /\ sent' = ack
                         /\ lastOp' = [op |-> "submit", ws |-> ws, content |-> content,
                                       result |-> "submitted"]
                         /\ UNCHANGED <<gameState, revealCount>>
                    ELSE /\ gameState' = "revealed"
                         /\ IF LookupThrows(m)
                              THEN /\ sent' = ack
                                   /\ lastOp' = [op |-> "submit", ws |-> ws,
                                                 content |-> content,
                                                 result |-> "TypeError"]
                                   /\ UNCHANGED revealCount
                              ELSE /\ sent' = ack \o broadcast(sockets, RevealPayload(m))
                                   /\ lastOp' = [op |-> "submit", ws |-> ws,
                                                 content |-> content,
                                                 result |-> "reveal"]
                                   /\ revealCount' = revealCount + 1

\* ----------------------------------------------- webSocketClose / Error

\* gameState after a close: players.size > 0 ? "waiting" : "waiting", unless
\* the game is revealed.
StateAfterClose(m, gs) ==
  IF gs # "revealed" THEN (IF Len(m) > 0 THEN "waiting" ELSE "waiting") ELSE gs

\* webSocketClose(ws): the attachment is always set (fetch sets it before it
\* returns), so the branch is always taken.
webSocketClose(ws) ==
  /\ ws \in 1..Len(sockets)
  /\ sockets[ws].status # "closed"
  /\ LET m == MapDelete(players, sockets[ws].attachment.playerId)
         gs == StateAfterClose(m, gameState)
     IN /\ players' = m
        /\ gameState' = gs
        /\ sent' = broadcast(sockets, StateMsg(Len(m), gs))
        /\ sockets' = close(sockets, ws, "closed")
        /\ lastOp' = [op |-> "close", ws |-> ws, content |-> Undefined,
                      result |-> "closed"]
        /\ UNCHANGED <<nextId, revealCount>>

\* webSocketError(ws): delete the player, close the socket; gameState is not
\* touched and nothing is broadcast.
webSocketError(ws) ==
  /\ ws \in 1..Len(sockets)
  /\ sockets[ws].status = "open"
  /\ Cardinality({i \in 1..Len(sockets) : sockets[i].status = "closing"}) < MaxStale
  /\ players' = MapDelete(players, sockets[ws].attachment.playerId)
  /\ sockets' = close(sockets, ws, "closing")
  /\ sent' = <<>>
  /\ lastOp' = [op |-> "error", ws |-> ws, content |-> Undefined,
                result |-> "closed"]
  /\ UNCHANGED <<gameState, nextId, revealCount>>

\* ------------------------------------------------------------------- Next

Next ==
  \/ FetchNotWebSocket
  \/ FetchFull
  \/ FetchAdmit
  \/ \E ws \in 1..MaxAdmits : MessageOther(ws)
  \/ \E ws \in 1..MaxAdmits, content \in Contents : handleSubmit(ws, content)
  \/ \E ws \in 1..MaxAdmits : webSocketClose(ws)
  \/ \E ws \in 1..MaxAdmits : webSocketError(ws)

Spec == Init /\ [][Next]_vars

\* ------------------------------------------------- helpers for the claims

\* the entry of player k in the map (k must be in the map)
PlayerOf(m, k) == m[CHOOSE i \in 1..Len(m) : m[i].id = k]

\* ids of the players in the map
PlayerIds(m) == {m[i].id : i \in 1..Len(m)}

\* every player in the map still has its socket open
AllConnected(m, socks) == \A k \in PlayerIds(m) : socks[k].status = "open"

\* the reveal messages a handler sent to socket k
RevealsTo(s, k) ==
  {i \in 1..Len(s) : s[i].to = k /\ s[i].msg.type = "reveal"}

\* the handler that just ran was a submit that got past the gameState guard
SubmitRecorded(op) == op.op = "submit" /\ op.result # "ignored"

\* ------------------------------------------------------------------ C1

\* C1: the session never holds more than 2 participants, and an admission
\* attempted while 2 participants are present is rejected with 403 and leaves
\* the participant records, the sockets and the phase unchanged.
C1_AtMostTwoParticipants ==
  [][/\ Len(players') <= 2
     /\ (Len(players) = 2 /\ lastOp'.op = "fetch" /\ lastOp'.result # "400")
          => (/\ lastOp'.result = "403"
              /\ UNCHANGED <<players, gameState, sockets>>)]_vars

\* ------------------------------------------------------------------ C2

\* C2: in every session history the reveal message is broadcast at most once.
C2_RevealAtMostOnce == revealCount <= 1

\* ------------------------------------------------------------------ C3

\* C3: every reveal message carries the submission of the player with role
\* "question" in its question field and the submission of the player with
\* role "answer" in its answer field, whoever submitted last.
C3_RevealPairedByRole ==
  \A k \in 1..Len(sent) :
    sent[k].msg.type = "reveal" =>
      /\ \E i \in 1..Len(players) : players[i].role = "question"
      /\ \E i \in 1..Len(players) : players[i].role = "answer"
      /\ \A i \in 1..Len(players) :
           /\ players[i].role = "question"
                => sent[k].msg.question = players[i].submission
           /\ players[i].role = "answer"
                => sent[k].msg.answer = players[i].submission

\* a reveal was just broadcast by the submit of the "question" player (the
\* "answer" player submitted first), with two different texts
C3_Witness ==
  /\ lastOp.op = "submit" /\ lastOp.result = "reveal"
  /\ sockets[lastOp.ws].attachment.role = "question"
  /\ \E k \in 1..Len(sent) :
       /\ sent[k].msg.type = "reveal"
       /\ sent[k].msg.question # sent[k].msg.answer

\* ------------------------------------------------------------------ C4

\* C4: when two connected participants both hold a non-absent submission, the
\* phase is Revealed and a reveal was broadcast; the submit that completed the
\* pair delivered one reveal message to each of the two.
C4_BothSubmittedImpliesReveal ==
  (Len(players) = 2 /\ AllSubmitted(players) /\ AllConnected(players, sockets))
    => /\ gameState = "revealed"
       /\ revealCount >= 1
       /\ SubmitRecorded(lastOp)
            => \A k \in PlayerIds(players) : Cardinality(RevealsTo(sent, k)) = 1

\* ------------------------------------------------------------------ C5

\* C5: the only message that carries submission content is the reveal, and a
\* reveal is only sent when the map holds two players that have both
\* submitted.
C5_NoContentBeforeBothSubmitted ==
  \A k \in 1..Len(sent) :
    LET msg == sent[k].msg
    IN /\ msg.type \in {"joined", "state", "submitted", "reveal"}
       /\ msg.type # "reveal"
            => DOMAIN msg \subseteq
                 {"type", "playerId", "role", "playerCount", "gameState"}
       /\ msg.type = "reveal"
            => /\ Len(players) = 2
               /\ \A i \in 1..Len(players) : Truthy(players[i].submission)

\* one of two connected players has just submitted a text, the other has not
\* submitted: only the acknowledgement went out
C5_Witness ==
  /\ lastOp.op = "submit" /\ lastOp.result = "submitted"
  /\ Len(players) = 2 /\ AllConnected(players, sockets)
  /\ Truthy(PlayerOf(players, lastOp.ws).submission)
  /\ \E i \in 1..Len(players) : players[i].submission = Null
  /\ sent = <<[to |-> lastOp.ws, msg |-> SubmittedMsg]>>

\* ------------------------------------------------------------------ C6

\* C6: a recorded (non-absent) submission never changes while its participant
\* stays in the session, and a second submit of that participant is not
\* acknowledged.
C6_SubmissionImmutable ==
  [][\A i \in 1..Len(players) :
       (Truthy(players[i].submission) /\ MapHas(players', players[i].id))
         => /\ PlayerOf(players', players[i].id).submission = players[i].submission
            /\ (lastOp'.op = "submit" /\ lastOp'.ws = players[i].id)
                 => \A k \in 1..Len(sent') : sent'[k].msg.type # "submitted"]_vars

\* ------------------------------------------------------------------ C7

\* C7: a submit received while gameState is not "playing" is answered with an
\* error message to its sender and changes neither the players nor the phase;
\* no acknowledgement and no reveal is sent.
C7_SubmitOutsidePlayingReportsError ==
  [][(lastOp'.op = "submit" /\ gameState # "playing")
       => /\ \E k \in 1..Len(sent') :
               sent'[k].to = lastOp'.ws /\ sent'[k].msg.type = "error"
          /\ \A k \in 1..Len(sent') :
               sent'[k].msg.type \notin {"submitted", "reveal"}
          /\ UNCHANGED <<players, gameState>>]_vars

\* ------------------------------------------------------------------ C8

\* C8: a submit whose content is empty or whitespace-only has no effect: the
\* stored submissions and the phase stay as they were and no acknowledgement
\* is sent.
C8_EmptyContentNoEffect ==
  [][(lastOp'.op = "submit" /\ lastOp'.content \in {"", " "})
       => /\ UNCHANGED <<players, gameState>>
          /\ \A k \in 1..Len(sent') : sent'[k].msg.type # "submitted"]_vars

\* ------------------------------------------------------------------ C9

\* C9: when the two connected participants of a playing session both submit a
\* text, in either order, the first submit yields no reveal and the second
\* yields exactly one reveal broadcast, delivered once to each of them and
\* holding both texts.
C9_TwoSubmitsOneReveal ==
  [][(/\ gameState = "playing"
      /\ Len(players) = 2
      /\ AllConnected(players, sockets)
      /\ lastOp'.op = "submit"
      /\ lastOp'.ws \in PlayerIds(players)
      /\ Truthy(lastOp'.content))
       => LET me == lastOp'.ws
              other == CHOOSE k \in PlayerIds(players) : k # me
              theirs == PlayerOf(players, other).submission
          IN IF Truthy(theirs)
               THEN /\ revealCount' = revealCount + 1
                    /\ \A k \in {me, other} :
                         /\ Cardinality(RevealsTo(sent', k)) = 1
                         /\ \A i \in RevealsTo(sent', k) :
                              /\ Truthy(sent'[i].msg.question)
                              /\ Truthy(sent'[i].msg.answer)
                              /\ {sent'[i].msg.question, sent'[i].msg.answer}
                                   = {lastOp'.content, theirs}
               ELSE /\ revealCount' = revealCount
                    /\ \A k \in 1..Len(sent') : sent'[k].msg.type # "reveal"]_vars

\* ----------------------------------------------------------------- C10

\* C10: the map never holds two players with the same role, and a player's
\* role never changes while the player is in the map.
C10_RolesUniqueAndStable ==
  [][/\ \A i, j \in 1..Len(players') :
          i # j => players'[i].role # players'[j].role
     /\ \A i \in 1..Len(players) :
          MapHas(players', players[i].id)
            => PlayerOf(players', players[i].id).role = players[i].role]_vars

\* the state messages a handler sent to socket k with this count and phase
StatesTo(s, k, count, gs) ==
  {i \in 1..Len(s) : /\ s[i].to = k
                      /\ s[i].msg.type = "state"
                      /\ s[i].msg.playerCount = count
                      /\ s[i].msg.gameState = gs}

\* the players left in the map whose socket is open
Connected(m, socks) == {k \in PlayerIds(m) : socks[k].status = "open"}

\* ----------------------------------------------------------------- C11

\* C11: unless the session is revealed, the phase is "waiting" exactly when
\* the map holds 0 players, "ready" exactly when it holds 1 and "playing"
\* exactly when it holds 2.
C11_PhaseAgreesWithCount ==
  gameState # "revealed"
    => /\ gameState = "waiting" <=> Len(players) = 0
       /\ gameState = "ready" <=> Len(players) = 1
       /\ gameState = "playing" <=> Len(players) = 2

\* ----------------------------------------------------------------- C12

\* C12: once gameState is "revealed" it stays "revealed" after every later
\* close, error, submit or admission.
C12_RevealedIsTerminal ==
  [][gameState = "revealed" => gameState' = "revealed"]_vars

\* ----------------------------------------------------------------- C13

\* C13: a close of a player that is in the map, in a session that is not
\* revealed, removes that player only, sets the phase to "ready" if one
\* player remains and to "waiting" if none remains, keeps the remaining
\* players' records, and sends every remaining connected player a state
\* message with the new count and phase.
C13_DisconnectRegressesPhase ==
  [][(/\ lastOp'.op = "close"
      /\ MapHas(players, lastOp'.ws)
      /\ gameState # "revealed")
       => /\ players' = MapDelete(players, lastOp'.ws)
          /\ Len(players') = 1 => gameState' = "ready"
          /\ Len(players') = 0 => gameState' = "waiting"
          /\ \A k \in Connected(players', sockets') :
               StatesTo(sent', k, Len(players'), gameState') # {}]_vars

\* ----------------------------------------------------------------- C14

\* C14: a close notification for a socket whose player is not (or no longer)
\* in the map changes neither the players, nor their submissions, nor the
\* phase.
C14_UnknownDisconnectIsNoOp ==
  [][(lastOp'.op = "close" /\ ~MapHas(players, lastOp'.ws))
       => UNCHANGED <<players, gameState>>]_vars

\* ----------------------------------------------------------------- C15

C16_JoinedThenStateBroadcast ==
  lastOp.result = "101"
    => LET new == lastOp.ws
       IN /\ Len(sent) >= 2
          /\ sent[1] = [to |-> new,
                        msg |-> [type |-> "joined", playerId |-> new,
                                 role |-> PlayerOf(players, new).role,
                                 playerCount |-> Len(players),
                                 gameState |-> gameState]]
          /\ \A i \in 2..Len(sent) : sent[i].msg.type = "state"
          /\ new \in Connected(players, sockets)
          /\ \A k \in Connected(players, sockets) :
               /\ Cardinality(StatesTo(sent, k, Len(players), gameState)) = 1
               /\ \A i \in StatesTo(sent, k, Len(players), gameState) : i > 1

\* a second player was just admitted next to a connected first one: both got
\* the state message with count 2 and phase "playing"
C16_Witness ==
  /\ lastOp.result = "101"
  /\ Connected(players, sockets) = {1, 2}
  /\ gameState = "playing"
  /\ Len(sent) = 3
  /\ sent[1].to = 2 /\ sent[1].msg.type = "joined"
  /\ StatesTo(sent, 1, 2, "playing") = {2}
  /\ StatesTo(sent, 2, 2, "playing") = {3}

\* ----------------------------------------------------------------- C17

\* C17: a channel error on a player that is in the map has the effect of a
\* close of that player: the player is removed, the phase is the one a close
\* would leave, and every remaining connected player is sent the state
\* message with the new count and phase.
C17_ErrorHandledAsDisconnect ==
  [][(lastOp'.op = "error" /\ MapHas(players, lastOp'.ws))
       => LET m == MapDelete(players, lastOp'.ws)
              gs == StateAfterClose(m, gameState)
          IN /\ players' = m
             /\ gameState' = gs
             /\ \A k \in Connected(m, sockets') :
                  StatesTo(sent', k, Len(m), gs) # {}]_vars

\* ----------------------------------------------------------------- C18

\* C18: a send that fails on one socket neither keeps a message from the
\* other sockets nor stops the handler: every broadcast of an admission or a
\* close reaches every open socket, and a submit that was recorded and
\* completes the pair moves the phase to "revealed" even when its own
\* acknowledgement could not be sent.
C18_FailedSendDoesNotStopHandler ==
  [][/\ (lastOp'.result = "101" \/ lastOp'.op = "close")
          => \A k \in 1..Len(sockets') :
               sockets'[k].status = "open"
                 => StatesTo(sent', k, Len(players'), gameState') # {}
     /\ (lastOp'.op = "submit" /\ gameState = "playing"
           /\ RevealCondition(players'))
          => gameState' = "revealed"]_vars

\* ----------------------------------------------------------------- C19

\* C19: a submit arriving on a socket whose player is no longer in the map
\* adds no entry to the map, changes no submission and no phase, and
\* triggers no reveal.
C19_StaleSubmitIgnored ==
  [][(lastOp'.op = "submit" /\ ~MapHas(players, lastOp'.ws))
       => UNCHANGED <<players, gameState, revealCount>>]_vars

\* ----------------------------------------------------------------- C20

\* C20: whenever the map holds exactly two players that both have a truthy
\* submission, one has role "question" and the other "answer", so neither
\* lookup of the reveal payload fails and no submit ends in a TypeError
\* after setting gameState to "revealed".
C20_RevealLookupsSucceed ==
  (Len(players) = 2 /\ AllSubmitted(players))
    => /\ FindRole(players, "question") # 0
       /\ FindRole(players, "answer") # 0
       /\ lastOp.result # "TypeError"

====
